---- MODULE Spec2Model ----
(***************************************************************************)
(* Model of the firmware validation of the secure bootloader               *)
(* (subsys/bootloader/bl_validation/bl_validation.c): the monotonic        *)
(* version counter adapter, the region predicates, the validation-info     *)
(* scan, the multi-key signature verification and validate_firmware with   *)
(* its two entry points.                                                   *)
(***************************************************************************)
EXTENDS Integers, Sequences, FiniteSets, TLC

(***************************************************************************)
(* Machine arithmetic.  A u32_t is the pair <<hi, lo>> of its 16-bit       *)
(* halves, so that addresses keep their full width and sums wrap at 2^32.  *)
(* A u16_t (the counter word) is a natural number below 2^16.              *)
(***************************************************************************)
W16 == 2^16

U32(hi, lo) == <<hi, lo>>
Lo32(n) == <<n \div W16, n % W16>>      \* the u32_t with value n
NULLP == <<0, 0>>

Lt32(a, b) == \/ a[1] < b[1]
              \/ a[1] = b[1] /\ a[2] < b[2]
Gt32(a, b) == Lt32(b, a)
Le32(a, b) == ~Lt32(b, a)
Ge32(a, b) == ~Lt32(a, b)

Add32(a, b) ==
    LET lo == a[2] + b[2]
    IN  <<(a[1] + b[1] + (lo \div W16)) % W16, lo % W16>>

Trunc16(n) == n % W16

(***************************************************************************)
(* Program constants.                                                      *)
(***************************************************************************)
\* errno values used as negative return codes
EINVAL == 22
EFAULT == 14
ENOMEM == 12
EHASHFF == 113
EHASHINV == 101
ESIGINV == 102

\* partition sizes, the canonical "valid" word, the fixed offset of the
\* firmware info inside an image, the search distance passed to
\* validation_info_find and the largest version the counter can hold
PM_S0_SIZE == 32768
PM_S1_SIZE == 32768
FW_INFO_VALID_VAL == 1
FW_INFO_OFFSET == 512
SEARCH_DISTANCE == 4
MAX_VERSION == 32767

\* layout of struct fw_validation_info: the length of the magic that is
\* compared, the offsets of the address and hash fields and the lengths of
\* the hash, public key and signature fields
FW_INFO_MAGIC_LEN == 12
ADDRESS_OFFSET == 12
HASH_OFFSET == 16
SB_HASH_LEN == 32
SB_PUBLIC_KEY_LEN == 64
SB_SIGNATURE_LEN == 64

(***************************************************************************)
(* Bounds of the model.                                                    *)
(***************************************************************************)
\* the u32_t values 0..AddrSpan and 2^32-1-AddrSpan..2^32-1 are the
\* arguments of the region predicates
AddrSpan == 2
\* number of provisioned public key slots
NumKeys == 3
\* number of monotonic counter slots of a device that has the counter enabled
CounterSlots == 1

(***************************************************************************)
(* State.                                                                  *)
(***************************************************************************)
VARIABLES
    counter,      \* the word get_monotonic_counter() returns
    freeSlots,    \* monotonic counter slots not yet written
    numSlots,     \* num_monotonic_counter_slots()
    keyHash,      \* key slot -> provisioned public key hash
    keyInvalid,   \* key slot -> the slot has been invalidated
    trusted,      \* highest key index a verification has succeeded with, -1: none
    lastSet,      \* version and slot of the last set_monotonic_version that returned 0
    call,         \* the last call of the bootloader API and what it did
    rq,           \* the last call of within / region_within
    fq            \* the last call of validation_info_find

vars == <<counter, freeSlots, numSlots, keyHash, keyInvalid, trusted, lastSet, call, rq, fq>>
blVars == <<counter, freeSlots, numSlots, keyHash, keyInvalid, trusted, lastSet, call>>

(***************************************************************************)
(* Region arithmetic.                                                      *)
(***************************************************************************)
WithinOffByOne(addr, start, end) ==
    IF Gt32(start, end) THEN FALSE
    ELSE IF Lt32(addr, start) THEN FALSE
    ELSE IF Gt32(addr, end) THEN FALSE
    ELSE TRUE

within(addr, start, end) ==
    IF Gt32(start, end) THEN FALSE
    ELSE IF Lt32(addr, start) THEN FALSE
    ELSE IF Ge32(addr, end) THEN FALSE
    ELSE TRUE

RegionWithinStartOnly(inner_start, inner_end, start, end) ==
    IF Gt32(inner_start, inner_end) THEN FALSE
    ELSE IF ~within(inner_start, start, end) THEN FALSE
    ELSE TRUE

region_within(inner_start, inner_end, start, end) ==
    IF Gt32(inner_start, inner_end) THEN FALSE
    ELSE IF ~within(inner_start, start, end) THEN FALSE
    ELSE IF ~within(inner_end, start, end) THEN FALSE
    ELSE TRUE

\* the u32_t arguments the predicates are applied to
RegionAddrs == {U32(0, i) : i \in 0 .. AddrSpan}
               \cup {U32(W16 - 1, W16 - 1 - i) : i \in 0 .. AddrSpan}

NoRq == [fn |-> "none", a |-> NULLP, b |-> NULLP, c |-> NULLP, d |-> NULLP,
         ret |-> FALSE]

CallWithin ==
    /\ rq.fn = "none"
    /\ \E addr \in RegionAddrs, start \in RegionAddrs, end \in RegionAddrs :
          rq' = [fn |-> "within", a |-> addr, b |-> NULLP, c |-> start,
                 d |-> end, ret |-> within(addr, start, end)]
    /\ UNCHANGED <<blVars, fq>>

CallRegionWithin ==
    /\ rq.fn = "none"
    /\ \E is \in RegionAddrs, ie \in RegionAddrs,
          start \in RegionAddrs, end \in RegionAddrs :
          rq' = [fn |-> "region_within", a |-> is, b |-> ie, c |-> start,
                 d |-> end, ret |-> region_within(is, ie, start, end)]
    /\ UNCHANGED <<blVars, fq>>

(***************************************************************************)
(* Binary metadata scanner.  Memory is described by what the scanner can   *)
(* see of it: vmagic is the set of addresses at which the bytes equal      *)
(* VALIDATION_INFO_MAGIC.  A pointer is its u32_t address, NULL is 0.      *)
(***************************************************************************)
\* the bool a pointer converts to
PtrToBool(ptr) == ptr # NULLP

validation_info_check(vmagic, vinfo) ==
    IF vinfo \in vmagic THEN PtrToBool(vinfo) ELSE PtrToBool(NULLP)

RECURSIVE FindFromExclusive(_, _, _, _)
FindFromExclusive(vmagic, start_address, search_distance, i) ==
    IF ~(i < search_distance) THEN NULLP
    ELSE LET vinfo == Add32(start_address, Lo32(i))
         IN  IF validation_info_check(vmagic, vinfo) THEN vinfo
             ELSE FindFromExclusive(vmagic, start_address, search_distance, i + 1)

\* the loop of validation_info_find from index i on
RECURSIVE FindFrom(_, _, _, _)
FindFrom(vmagic, start_address, search_distance, i) ==
    IF ~(i <= search_distance) THEN NULLP
    ELSE LET vinfo == Add32(start_address, Lo32(i))
         IN  IF validation_info_check(vmagic, vinfo) THEN vinfo
             ELSE FindFrom(vmagic, start_address, search_distance, i + 1)

FindExclusive(vmagic, start_address, search_distance) ==
    FindFromExclusive(vmagic, start_address, search_distance, 0)

validation_info_find(vmagic, start_address, search_distance) ==
    FindFrom(vmagic, start_address, search_distance, 0)

\* sizeof(struct fw_validation_info), which is packed
SizeofValidationInfo ==
    HASH_OFFSET + SB_HASH_LEN + SB_PUBLIC_KEY_LEN + SB_SIGNATURE_LEN

\* the scan with the index scaled by the size of the structure, as pointer
\* arithmetic on a struct fw_validation_info * would
RECURSIVE FindTraceScaled(_, _, _, _)
FindTraceScaled(vmagic, start_address, search_distance, i) ==
    IF ~(i <= search_distance) THEN <<>>
    ELSE LET off == i * SizeofValidationInfo
         IN  IF validation_info_check(vmagic, Add32(start_address, Lo32(off)))
             THEN <<off>>
             ELSE <<off>> \o FindTraceScaled(vmagic, start_address,
                                             search_distance, i + 1)

\* the offsets i at which the loop of validation_info_find calls
\* validation_info_check, in order, from index i on
RECURSIVE FindTrace(_, _, _, _)
FindTrace(vmagic, start_address, search_distance, i) ==
    IF ~(i <= search_distance) THEN <<>>
    ELSE IF validation_info_check(vmagic, Add32(start_address, Lo32(i)))
    THEN <<i>>
    ELSE <<i>> \o FindTrace(vmagic, start_address, search_distance, i + 1)

\* the start addresses of the scan: the ends of the address space and the
\* end of an image in the first slot
FindStarts == RegionAddrs \cup {Lo32(36864)}

NoFq == [fn |-> "none", start |-> NULLP, dist |-> 0, vmagic |-> {},
         ret |-> NULLP]

CallFind ==
    /\ fq.fn = "none"
    /\ \E start \in FindStarts, dist \in 0 .. SEARCH_DISTANCE :
          \E vmagic \in SUBSET {Add32(start, Lo32(i)) : i \in 0 .. dist + 1} :
             fq' = [fn |-> "validation_info_find", start |-> start,
                    dist |-> dist, vmagic |-> vmagic,
                    ret |-> validation_info_find(vmagic, start, dist)]
    /\ UNCHANGED <<blVars, rq>>

(***************************************************************************)
(* Monotonic counter.  The storage backend (bl_storage) keeps the word in  *)
(* write-once slots: a write needs a free slot and a word not below the    *)
(* stored one, and it can fail.                                            *)
(***************************************************************************)
num_monotonic_counter_slots == numSlots

get_monotonic_counter == counter

\* [err, counter, freeSlots] of set_monotonic_counter(new_counter); wfail:
\* the storage reports a write error
set_monotonic_counter(new_counter, wfail) ==
    IF freeSlots = 0
    THEN [err |-> -ENOMEM, counter |-> counter, freeSlots |-> freeSlots]
    ELSE IF new_counter < counter
    THEN [err |-> -EINVAL, counter |-> counter, freeSlots |-> freeSlots]
    ELSE IF wfail
    THEN [err |-> -EFAULT, counter |-> counter, freeSlots |-> freeSlots]
    ELSE [err |-> 0, counter |-> new_counter, freeSlots |-> freeSlots - 1]

\* !slot of C, as 0 or 1
LNot(x) == IF x = 0 THEN 1 ELSE 0

\* (version << 1) | !slot, passed as a u16_t
CounterWordSlotNotNegated(version, slot) ==
    Trunc16(2 * version + slot)

CounterWord(version, slot) ==
    Trunc16(2 * version + LNot(slot))

\* set_monotonic_version: the result of the counter write, returned as it is
set_monotonic_version(version, slot, wfail) ==
    set_monotonic_counter(CounterWord(version, slot), wfail)

\* get_monotonic_version: [version, slot] decoded from the word
DecodeVersionNoShift(monotonic_version) ==
    [version |-> monotonic_version, slot |-> LNot(monotonic_version % 2)]

DecodeVersion(monotonic_version) ==
    [version |-> monotonic_version \div 2, slot |-> LNot(monotonic_version % 2)]

get_monotonic_version(word) == DecodeVersion(word)

(***************************************************************************)
(* Key store (bl_storage) and root of trust (bl_crypto).                   *)
(***************************************************************************)
num_public_keys_read == Cardinality(DOMAIN keyHash)

\* public_key_data_read: a negative error, or 0 with key_data = keyHash[idx]
public_key_data_read(inv, read_err, key_idx) ==
    IF inv[key_idx] THEN -EINVAL
    ELSE IF read_err[key_idx] # 0 THEN -read_err[key_idx]
    ELSE 0

\* invalidate_public_key: the slot is invalidated unless the write fails
invalidate_public_key(inv, inval_fail, i) ==
    IF i \in inval_fail THEN inv ELSE [inv EXCEPT ![i] = TRUE]

\* bl_root_of_trust_verify: the public key is checked against the key
\* hash, then the signature against the firmware
rot_verify(c, key_data) ==
    IF c.rot_err THEN -EINVAL
    ELSE IF c.pubkey # key_data THEN -EHASHINV
    ELSE IF ~c.sig THEN -ESIGINV
    ELSE 0

(***************************************************************************)
(* validate_signature.  c holds the embedded public key and signature of   *)
(* the candidate and what the crypto library and the key storage do during *)
(* this call; inv is the invalidation state of the key slots.  The result  *)
(* records the return value, the new invalidation state and, in order,     *)
(* the slots read, the slots verified against and the slots handed to      *)
(* invalidate_public_key.                                                  *)
(***************************************************************************)
\* the inner loop with the bound i <= key_data_idx
RECURSIVE InvalidateThrough(_, _, _, _)
InvalidateThrough(s, c, key_data_idx, i) ==
    IF ~(i <= key_data_idx) THEN s
    ELSE InvalidateThrough(
             [s EXCEPT !.inv = invalidate_public_key(s.inv, c.inval_fail, i),
                       !.invals = Append(s.invals, i)],
             c, key_data_idx, i + 1)

\* the inner loop "for (i = 0; i < key_data_idx; i++) invalidate_public_key(i)"
RECURSIVE InvalidateBelow(_, _, _, _)
InvalidateBelow(s, c, key_data_idx, i) ==
    IF ~(i < key_data_idx) THEN s
    ELSE InvalidateBelow(
             [s EXCEPT !.inv = invalidate_public_key(s.inv, c.inval_fail, i),
                       !.invals = Append(s.invals, i)],
             c, key_data_idx, i + 1)

\* "if (retval == 0) { invalidate the slots below; validated = true; }"
AfterVerifyAnyResult(s, c, key_data_idx, retval) ==
    [InvalidateBelow(s, c, key_data_idx, 0) EXCEPT !.validated = (retval = 0)]

AfterVerify(s, c, key_data_idx, retval) ==
    IF retval = 0
    THEN [InvalidateBelow(s, c, key_data_idx, 0) EXCEPT !.validated = TRUE]
    ELSE s

\* the loop over the key slots from key_data_idx on
RECURSIVE KeyLoopStopAtInvalidated(_, _, _)
KeyLoopStopAtInvalidated(s, c, key_data_idx) ==
    IF ~(key_data_idx < num_public_keys_read) THEN s
    ELSE
      LET read_retval == public_key_data_read(s.inv, c.read_err, key_data_idx)
          s1 == [s EXCEPT !.reads = Append(s.reads, <<key_data_idx, read_retval>>)]
      IN
      IF read_retval < 0 THEN
         IF read_retval = -EINVAL
         THEN [s1 EXCEPT !.retval = -EINVAL]
         ELSE IF read_retval = -EHASHFF
         THEN [s1 EXCEPT !.retval = -EHASHFF]
         ELSE [s1 EXCEPT !.retval = -EFAULT]
      ELSE
         LET retval == rot_verify(c, keyHash[key_data_idx])
             s2 == [s1 EXCEPT !.retval = retval,
                              !.verifs = Append(s1.verifs, <<key_data_idx, retval>>)]
             s3 == AfterVerify(s2, c, key_data_idx, retval)
         IN  IF retval # -EHASHINV THEN s3
             ELSE KeyLoopStopAtInvalidated(s3, c, key_data_idx + 1)

\* variants of the loop: read faults skipped like invalidated slots, and
\* the loop continued after every failed verification
RECURSIVE KeyLoopVariant(_, _, _, _, _)
KeyLoopVariant(s, c, key_data_idx, skip_faults, continue_after_failure) ==
    IF ~(key_data_idx < num_public_keys_read) THEN s
    ELSE
      LET read_retval == public_key_data_read(s.inv, c.read_err, key_data_idx)
          s1 == [s EXCEPT !.reads = Append(s.reads, <<key_data_idx, read_retval>>)]
      IN
      IF read_retval < 0 THEN
         IF read_retval = -EINVAL \/ skip_faults
         THEN KeyLoopVariant([s1 EXCEPT !.retval = -EINVAL], c, key_data_idx + 1,
                             skip_faults, continue_after_failure)
         ELSE IF read_retval = -EHASHFF
         THEN [s1 EXCEPT !.retval = -EHASHFF]
         ELSE [s1 EXCEPT !.retval = -EFAULT]
      ELSE
         LET retval == rot_verify(c, keyHash[key_data_idx])
             s2 == [s1 EXCEPT !.retval = retval,
                              !.verifs = Append(s1.verifs, <<key_data_idx, retval>>)]
             s3 == AfterVerify(s2, c, key_data_idx, retval)
         IN  IF retval = 0 \/ (retval # -EHASHINV /\ ~continue_after_failure)
             THEN s3
             ELSE KeyLoopVariant(s3, c, key_data_idx + 1,
                                 skip_faults, continue_after_failure)

KeyLoopContinueAfterFailure(s, c, key_data_idx) ==
    KeyLoopVariant(s, c, key_data_idx, FALSE, TRUE)

KeyLoopSkipFaults(s, c, key_data_idx) ==
    KeyLoopVariant(s, c, key_data_idx, TRUE, FALSE)

RECURSIVE KeyLoop(_, _, _)
KeyLoop(s, c, key_data_idx) ==
    IF ~(key_data_idx < num_public_keys_read) THEN s
    ELSE
      LET read_retval == public_key_data_read(s.inv, c.read_err, key_data_idx)
          s1 == [s EXCEPT !.reads = Append(s.reads, <<key_data_idx, read_retval>>)]
      IN
      IF read_retval < 0 THEN
         IF read_retval = -EINVAL
         THEN KeyLoop([s1 EXCEPT !.retval = -EINVAL], c, key_data_idx + 1)
         ELSE IF read_retval = -EHASHFF
         THEN [s1 EXCEPT !.retval = -EHASHFF]
         ELSE [s1 EXCEPT !.retval = -EFAULT]
      ELSE
         LET retval == rot_verify(c, keyHash[key_data_idx])
             s2 == [s1 EXCEPT !.retval = retval,
                              !.verifs = Append(s1.verifs, <<key_data_idx, retval>>)]
             s3 == AfterVerify(s2, c, key_data_idx, retval)
         IN  IF retval # -EHASHINV THEN s3
             ELSE KeyLoop(s3, c, key_data_idx + 1)

NoSig(inv) == [ran |-> FALSE, ret |-> FALSE, retval |-> -EINVAL,
               validated |-> FALSE, inv |-> inv, init |-> FALSE,
               reads |-> <<>>, verifs |-> <<>>, invals |-> <<>>]

validate_signature(c, inv) ==
    LET s0 == [NoSig(inv) EXCEPT !.ran = TRUE]
    IN  IF c.init_err THEN s0
        ELSE
          LET s == KeyLoop([s0 EXCEPT !.init = TRUE], c, 0)
          IN  IF s.retval # 0 THEN [s EXCEPT !.ret = FALSE]
              ELSE [s EXCEPT !.ret = s.validated]

(***************************************************************************)
(* The candidate image as validate_firmware sees it.  A candidate c gives  *)
(* the arguments of the call (src, dst, arg), the firmware info found in   *)
(* memory (info_magic: the structure at src + FW_INFO_OFFSET carries the   *)
(* magic; copy_at: the address of a second structure with the same fields  *)
(* and the magic, NULL if there is none), its fields, the word reset       *)
(* stored at boot_address + 4, the validation info (vmagic, vaddress) and  *)
(* the inputs of validate_signature.                                       *)
(***************************************************************************)
\* fw_info_check: the pointer if the magic is found at it, else NULL
fw_info_check(c, fw_info_addr) ==
    IF \/ c.info_magic /\ fw_info_addr = Add32(c.src, Lo32(FW_INFO_OFFSET))
       \/ c.copy_at # NULLP /\ fw_info_addr = c.copy_at
    THEN fw_info_addr
    ELSE NULLP

\* fw_info_find: the firmware info at its fixed offset in the image
fw_info_find(c, firmware_address) ==
    fw_info_check(c, Add32(firmware_address, Lo32(FW_INFO_OFFSET)))

\* what validate_firmware has accessed besides the firmware info when it
\* returns at check n (n = 0: it returned true): the monotonic counter
\* (read for check 6), the word at boot_address + 4 (read for check 10), the
\* memory scanned for the validation info (for check 11) and the crypto
\* library and key storage (check 13)
Touched(n) ==
    (IF n = 0 \/ n >= 6 THEN {"counter"} ELSE {})
    \cup (IF n = 0 \/ n >= 10 THEN {"reset_word"} ELSE {})
    \cup (IF n = 0 \/ n >= 11 THEN {"scan"} ELSE {})
    \cup (IF n = 0 \/ n >= 13 THEN {"crypto"} ELSE {})

Rejected(n, inv) ==
    [ret |-> FALSE, failed |-> n, sig |-> NoSig(inv), touched |-> Touched(n)]

\* validate_firmware with the check of the valid field left out, with the
\* version check made first, or with check 8 (the firmware info lies within
\* the image) left out
ValidateFirmwareVariant(fw_dst_address, fw_src_address, fwinfo, external, c,
                        word, inv, ignore_valid, version_first,
                        skip_info_region) ==
    IF version_first /\ c.version < get_monotonic_version(word).version
    THEN Rejected(6, inv)
    ELSE IF fwinfo = NULLP THEN Rejected(1, inv)
    ELSE IF fw_info_check(c, fwinfo) = NULLP THEN Rejected(1, inv)
    ELSE IF fw_dst_address # c.address THEN Rejected(2, inv)
    ELSE IF ~external /\ fw_src_address # fw_dst_address THEN Rejected(3, inv)
    ELSE IF fw_info_find(c, fw_src_address) # fwinfo THEN Rejected(4, inv)
    ELSE IF ~ignore_valid /\ c.valid # FW_INFO_VALID_VAL THEN Rejected(5, inv)
    ELSE IF c.version < get_monotonic_version(word).version THEN Rejected(6, inv)
    ELSE IF \/ Gt32(c.size, Lo32(PM_S0_SIZE))
            \/ Gt32(c.size, Lo32(PM_S1_SIZE))
            \/ Gt32(c.total_size, c.size) THEN Rejected(7, inv)
    ELSE IF /\ ~skip_info_region
            /\ ~region_within(fwinfo, Add32(fwinfo, c.total_size),
                              fw_src_address, Add32(fw_src_address, c.size))
         THEN Rejected(8, inv)
    ELSE IF ~within(c.boot_address,
                    fw_dst_address, Add32(fw_dst_address, c.size))
         THEN Rejected(9, inv)
    ELSE IF ~within(c.reset,
                    fw_dst_address, Add32(fw_dst_address, c.size))
         THEN Rejected(10, inv)
    ELSE IF validation_info_find(c.vmagic, Add32(fw_src_address, c.size),
                                 SEARCH_DISTANCE) = NULLP
         THEN Rejected(11, inv)
    ELSE IF c.vaddress # c.address THEN Rejected(12, inv)
    ELSE LET sig == validate_signature(c, inv)
         IN  [ret |-> sig.ret,
              failed |-> IF sig.ret THEN 0 ELSE 13,
              sig |-> sig,
              touched |-> Touched(13)]

ValidateFirmwareIgnoringValid(fw_dst_address, fw_src_address, fwinfo, external, c, word, inv) ==
    ValidateFirmwareVariant(fw_dst_address, fw_src_address, fwinfo, external,
                            c, word, inv, TRUE, FALSE, FALSE)

ValidateFirmwareVersionFirst(fw_dst_address, fw_src_address, fwinfo, external, c, word, inv) ==
    ValidateFirmwareVariant(fw_dst_address, fw_src_address, fwinfo, external,
                            c, word, inv, FALSE, TRUE, FALSE)

ValidateFirmwareWithoutInfoRegion(fw_dst_address, fw_src_address, fwinfo, external, c, word, inv) ==
    ValidateFirmwareVariant(fw_dst_address, fw_src_address, fwinfo, external,
                            c, word, inv, FALSE, FALSE, TRUE)

\* validate_firmware; word is the monotonic counter word, inv the
\* invalidation state of the key slots.  failed is the number of the check
\* (1..13, in the order of the code) that returned false, 0 if none did.
validate_firmware(fw_dst_address, fw_src_address, fwinfo, external, c, word, inv) ==
    IF fwinfo = NULLP THEN Rejected(1, inv)
    ELSE IF fw_info_check(c, fwinfo) = NULLP THEN Rejected(1, inv)
    ELSE IF fw_dst_address # c.address THEN Rejected(2, inv)
    ELSE IF ~external /\ fw_src_address # fw_dst_address THEN Rejected(3, inv)
    ELSE IF fw_info_find(c, fw_src_address) # fwinfo THEN Rejected(4, inv)
    ELSE IF c.valid # FW_INFO_VALID_VAL THEN Rejected(5, inv)
    ELSE IF c.version < get_monotonic_version(word).version THEN Rejected(6, inv)
    ELSE IF \/ Gt32(c.size, Lo32(PM_S0_SIZE))
            \/ Gt32(c.size, Lo32(PM_S1_SIZE))
            \/ Gt32(c.total_size, c.size) THEN Rejected(7, inv)
    ELSE IF ~region_within(fwinfo, Add32(fwinfo, c.total_size),
                           fw_src_address, Add32(fw_src_address, c.size))
         THEN Rejected(8, inv)
    ELSE IF ~within(c.boot_address,
                    fw_dst_address, Add32(fw_dst_address, c.size))
         THEN Rejected(9, inv)
    ELSE IF ~within(c.reset,
                    fw_dst_address, Add32(fw_dst_address, c.size))
         THEN Rejected(10, inv)
    ELSE
      LET fw_val_info == validation_info_find(c.vmagic,
                             Add32(fw_src_address, c.size), SEARCH_DISTANCE)
      IN  IF fw_val_info = NULLP THEN Rejected(11, inv)
          ELSE IF c.vaddress # c.address THEN Rejected(12, inv)
          ELSE LET sig == validate_signature(c, inv)
               IN  [ret |-> sig.ret,
                    failed |-> IF sig.ret THEN 0 ELSE 13,
                    sig |-> sig,
                    touched |-> Touched(13)]

(***************************************************************************)
(* Candidates.  GoodImage(base, stage) is a well-formed, correctly signed  *)
(* image built to run from base and lying at stage; the families below     *)
(* change it one aspect at a time.                                         *)
(***************************************************************************)
KeySlots == 0 .. NumKeys - 1

S0 == Lo32(32768)       \* start of the first slot
S1 == Lo32(65536)       \* start of the second slot
ImageSize == Lo32(4096)

NoReadErr == [i \in KeySlots |-> 0]

GoodImage(base, stage) ==
    [src |-> stage, dst |-> base,
     arg |-> Add32(stage, Lo32(FW_INFO_OFFSET)),
     info_magic |-> TRUE, copy_at |-> NULLP,
     address |-> base, size |-> ImageSize, total_size |-> Lo32(64),
     version |-> 5, boot_address |-> base, valid |-> FW_INFO_VALID_VAL,
     reset |-> Add32(base, Lo32(65)),
     vmagic |-> {Add32(stage, ImageSize)}, vaddress |-> base,
     pubkey |-> 1, sig |-> TRUE,
     init_err |-> FALSE, rot_err |-> FALSE,
     read_err |-> NoReadErr, inval_fail |-> {}]

\* g with size sz, the validation info following the resized image
Resized(g, sz) == [g EXCEPT !.size = sz, !.vmagic = {Add32(g.src, sz)}]

\* corruptions of the metadata of g
MetaFamily(g) ==
    {g,
     [g EXCEPT !.info_magic = FALSE],
     [g EXCEPT !.address = Add32(g.address, ImageSize)],
     [g EXCEPT !.address = Add32(g.address, ImageSize),
               !.vaddress = Add32(g.address, ImageSize)],
     [g EXCEPT !.valid = 0],
     Resized(g, Lo32(PM_S0_SIZE)),
     Resized(g, Lo32(PM_S0_SIZE + 1)),
     Resized(g, Lo32(256)),
     [g EXCEPT !.total_size = Lo32(8192)],
     [g EXCEPT !.total_size = Lo32(4096 - FW_INFO_OFFSET)],
     [g EXCEPT !.total_size = Lo32(4096 - FW_INFO_OFFSET - 1)],
     [g EXCEPT !.boot_address = Add32(g.dst, g.size)],
     [g EXCEPT !.boot_address = Add32(g.dst, Lo32(4095))],
     [g EXCEPT !.reset = Add32(g.dst, g.size)],
     [g EXCEPT !.vmagic = {}],
     [g EXCEPT !.vmagic = {Add32(g.src, Lo32(4096 + SEARCH_DISTANCE))}],
     [g EXCEPT !.vmagic = {Add32(g.src, Lo32(4096 + SEARCH_DISTANCE + 1))}],
     [g EXCEPT !.vaddress = Add32(g.address, ImageSize)]}
    \cup {[g EXCEPT !.version = v] : v \in {0, 3, MAX_VERSION}}

\* what the embedded key and signature, the crypto library and the key
\* storage can do to the verification of g
CryptoFamily(g) ==
    {[g EXCEPT !.pubkey = k, !.sig = sg] : k \in 0 .. NumKeys, sg \in BOOLEAN}
    \cup {[g EXCEPT !.pubkey = NumKeys, !.init_err = TRUE]}
    \cup {[g EXCEPT !.pubkey = k, !.rot_err = TRUE] : k \in {1, NumKeys}}
    \cup {[g EXCEPT !.pubkey = NumKeys,
                    !.read_err = [i \in KeySlots |-> IF i = j THEN e ELSE 0]] :
             j \in KeySlots, e \in {EHASHFF, ENOMEM}}
    \cup {[g EXCEPT !.pubkey = k, !.inval_fail = {j}] :
             k \in 2 .. NumKeys, j \in 0 .. NumKeys - 2}

\* the address 2^32 - n, for n in 1 .. 2^16
BelowTop(n) == U32(W16 - 1, W16 - n)

\* images in place at the top of the address space: one that crosses the
\* top, one that ends exactly at it, one that ends one byte below it, the
\* same with a firmware info whose total_size reaches beyond the top, and
\* an image of size 0
EdgeImages ==
    {GoodImage(BelowTop(2048), BelowTop(2048)),
     GoodImage(BelowTop(4096), BelowTop(4096)),
     GoodImage(BelowTop(4097), BelowTop(4097)),
     [GoodImage(BelowTop(4097), BelowTop(4097)) EXCEPT !.total_size = ImageSize],
     [Resized(GoodImage(S0, S0), Lo32(0)) EXCEPT !.total_size = Lo32(0)]}

\* bl_validate_firmware(dst, src): an image in place or staged in the other
\* slot, and images whose source or destination region crosses the top of
\* the address space
ExtCandidates ==
    MetaFamily(GoodImage(S0, S0)) \cup CryptoFamily(GoodImage(S0, S0))
    \cup {GoodImage(S0, S1), [GoodImage(S0, S1) EXCEPT !.version = 3],
          [GoodImage(S0, S0) EXCEPT !.dst = S1]}
    \cup EdgeImages
    \cup {GoodImage(BelowTop(2048), S1), GoodImage(S0, BelowTop(2048))}

\* bl_validate_firmware_local(fw_address, fwinfo): fwinfo is the image's own
\* firmware info, NULL, a copy inside the image or a copy outside of it
LocalCandidates ==
    LET g == GoodImage(S0, S0)
    IN  MetaFamily(g)
        \cup {[g EXCEPT !.pubkey = k] : k \in 0 .. NumKeys}
        \cup {[g EXCEPT !.arg = NULLP],
              [g EXCEPT !.arg = Add32(g.src, Lo32(1024))],
              [g EXCEPT !.arg = Add32(g.src, Lo32(1024)),
                        !.copy_at = Add32(g.src, Lo32(1024))],
              [g EXCEPT !.arg = Add32(S1, Lo32(FW_INFO_OFFSET)),
                        !.copy_at = Add32(S1, Lo32(FW_INFO_OFFSET))],
              GoodImage(S1, S1)}
        \cup EdgeImages

(***************************************************************************)
(* The bootloader API.                                                     *)
(***************************************************************************)
SetVersions == {0, 5, MAX_VERSION}

NoCall == [op |-> "none", external |-> FALSE, dst |-> NULLP, src |-> NULLP,
           fwinfo |-> NULLP, c |-> GoodImage(S0, S0),
           ret |-> FALSE, failed |-> 0, sig |-> NoSig(<<>>),
           pre_inv |-> <<>>, pre_trusted |-> -1,
           version |-> 0, slot |-> 0, err |-> 0,
           available |-> TRUE, through |-> FALSE, touched |-> {},
           vreads |-> {}]

NoSet == [version |-> -1, slot |-> -1]

\* set_monotonic_version(version, slot), within its asserted domain
SetMonotonicVersion ==
    \E version \in SetVersions, slot \in {0, 1}, wfail \in BOOLEAN :
       LET r == set_monotonic_version(version, slot, wfail)
       IN  /\ counter' = r.counter
           /\ freeSlots' = r.freeSlots
           /\ lastSet' = IF r.err = 0
                          THEN [version |-> version, slot |-> slot]
                          ELSE lastSet
           /\ call' = [NoCall EXCEPT !.op = "set", !.version = version,
                                      !.slot = slot, !.err = r.err]
           /\ UNCHANGED <<numSlots, keyHash, keyInvalid, trusted, rq, fq>>

\* the address of ((const u32_t *)boot_address)[1], the reset handler word
\* read for check 10, and the address behind its last byte
ResetWordAddress(boot_address) == Add32(boot_address, Lo32(4))
ResetWordEnd(boot_address) == Add32(boot_address, Lo32(8))

\* the bytes validate_firmware reads at and after the end of the image, as
\* pairs <<first, end>> of offsets from fw_src_address + size: the magic
\* compared at each offset scanned, the address field of the validation
\* info found and the public key and signature handed to rot_verify; r is
\* the result of validate_firmware
ValidationInfoReads(fw_src_address, c, r) ==
    LET region_end == Add32(fw_src_address, c.size)
        trace == FindTrace(c.vmagic, region_end, SEARCH_DISTANCE, 0)
        found == trace[Len(trace)]
        key_at == found + HASH_OFFSET + SB_HASH_LEN
        sig_at == key_at + SB_PUBLIC_KEY_LEN
    IN  (IF "scan" \in r.touched
         THEN {<<trace[n], trace[n] + FW_INFO_MAGIC_LEN>> : n \in DOMAIN trace}
         ELSE {})
        \cup (IF r.failed \in {0, 12, 13}
              THEN {<<found + ADDRESS_OFFSET, found + HASH_OFFSET>>}
              ELSE {})
        \cup (IF r.sig.verifs # <<>>
              THEN {<<key_at, key_at + SB_PUBLIC_KEY_LEN>>,
                    <<sig_at, sig_at + SB_SIGNATURE_LEN>>}
              ELSE {})

\* the effect of a call of validate_firmware on the state; op is "validate"
\* for a call of the bootloader's own entry points and "caller" for a call
\* that another image makes through the ext_api table
ValidatedAs(op, dst, src, fwinfo, external, c) ==
    \E r \in {validate_firmware(dst, src, fwinfo, external, c,
                                get_monotonic_counter, keyInvalid)} :
       LET succeeded == {k \in KeySlots :
                           \E n \in DOMAIN r.sig.verifs : r.sig.verifs[n] = <<k, 0>>}
       IN  /\ keyInvalid' = r.sig.inv
           /\ trusted' = IF succeeded = {} THEN trusted
                         ELSE LET k == CHOOSE x \in succeeded : TRUE
                              IN  IF k > trusted THEN k ELSE trusted
           /\ call' = [NoCall EXCEPT !.op = op, !.external = external,
                                      !.dst = dst, !.src = src, !.fwinfo = fwinfo,
                                      !.c = c, !.ret = r.ret, !.failed = r.failed,
                                      !.sig = r.sig, !.pre_inv = keyInvalid,
                                      !.pre_trusted = trusted,
                                      !.through = (op = "caller"),
                                      !.touched = r.touched,
                                      !.vreads = ValidationInfoReads(src, c, r)]
           /\ UNCHANGED <<counter, freeSlots, numSlots, keyHash, lastSet, rq, fq>>

Validated(dst, src, fwinfo, external, c) ==
    ValidatedAs("validate", dst, src, fwinfo, external, c)

BlValidateFirmware ==
    \E c \in ExtCandidates :
       Validated(c.dst, c.src, fw_info_find(c, c.src), TRUE, c)

BlValidateFirmwareLocal ==
    \E c \in LocalCandidates :
       Validated(c.src, c.src, c.arg, FALSE, c)

\* bl_validate_firmware_available: the ext_api table was linked in
bl_validate_firmware_available(table_present) == table_present

\* bl_validate_firmware as built into an image that uses the bootloader's
\* validation through the optional ext_api table
CallerBlValidateFirmware ==
    \E table_present \in BOOLEAN, c \in ExtCandidates :
       IF ~bl_validate_firmware_available(table_present)
       THEN /\ call' = [NoCall EXCEPT !.op = "caller", !.external = TRUE,
                                       !.dst = c.dst, !.src = c.src, !.c = c,
                                       !.pre_inv = keyInvalid,
                                       !.pre_trusted = trusted,
                                       !.available = FALSE, !.ret = FALSE]
            /\ UNCHANGED <<counter, freeSlots, numSlots, keyHash, keyInvalid,
                           trusted, lastSet, rq, fq>>
       ELSE ValidatedAs("caller", c.dst, c.src, fw_info_find(c, c.src), TRUE, c)

(***************************************************************************)
(* Specifications.                                                         *)
(***************************************************************************)
\* a device with the counter enabled or disabled and with its keys
\* provisioned (slot i holds the hash of key i + 1, or the first two slots
\* both hold the hash of key 1) or with no key at all
Init ==
    /\ counter = 0
    /\ numSlots \in {0, CounterSlots}
    /\ freeSlots = numSlots
    /\ keyHash \in {[i \in KeySlots |-> i + 1],
                    [i \in KeySlots |-> IF i = 0 THEN 1 ELSE i],
                    <<>>}
    /\ keyInvalid = [i \in DOMAIN keyHash |-> FALSE]
    /\ trusted = -1
    /\ lastSet = NoSet
    /\ call = NoCall
    /\ rq = NoRq
    /\ fq = NoFq

Next == SetMonotonicVersion \/ BlValidateFirmware \/ BlValidateFirmwareLocal

Spec == Init /\ [][Next]_vars

NextRegion == CallWithin \/ CallRegionWithin

SpecRegion == Init /\ [][NextRegion]_vars

\* the scan on its own, and as validate_firmware calls it
NextFind ==
    \/ call.op = "none" /\ CallFind
    \/ fq.fn = "none" /\ BlValidateFirmware
    \/ fq.fn = "none" /\ BlValidateFirmwareLocal

SpecFind == Init /\ [][NextFind]_vars

\* region_within on its own, and as validate_firmware calls it
NextEndpoints ==
    \/ call.op = "none" /\ CallRegionWithin
    \/ rq.fn = "none" /\ BlValidateFirmware
    \/ rq.fn = "none" /\ BlValidateFirmwareLocal

SpecEndpoints == Init /\ [][NextEndpoints]_vars

\* the image that calls the bootloader's validation through the table
NextCaller == SetMonotonicVersion \/ CallerBlValidateFirmware

SpecCaller == Init /\ [][NextCaller]_vars

(***************************************************************************)
(* Properties of the region predicates (SpecRegion).                       *)
(***************************************************************************)
\* C8: within(address, start, end) is true if and only if start <= end and
\* start <= address < end; so it is false whenever start > end and false
\* for address = end.
C8_WithinIffInHalfOpenRange ==
    rq.fn = "within" =>
       (rq.ret <=> /\ Le32(rq.c, rq.d)
                   /\ Le32(rq.c, rq.a)
                   /\ Lt32(rq.a, rq.d))

\* within accepted the last address of a range that ends at the top of the
\* address space
C8_Witness ==
    /\ rq.fn = "within"
    /\ rq.ret
    /\ Add32(rq.a, Lo32(1)) = rq.d
    /\ rq.d = U32(W16 - 1, W16 - 1)

\* C9: region_within(inner_start, inner_end, start, end) is true if and only
\* if inner_start <= inner_end and both inner_start and inner_end are within
\* [start, end); an empty inner region at a point inside the range is accepted.
C9_RegionWithinIffEndpointsWithin ==
    rq.fn = "region_within" =>
       (rq.ret <=> /\ Le32(rq.a, rq.b)
                   /\ Le32(rq.c, rq.d)
                   /\ Le32(rq.c, rq.a) /\ Lt32(rq.a, rq.d)
                   /\ Le32(rq.c, rq.b) /\ Lt32(rq.b, rq.d))

\* region_within accepted an empty inner region
C9_Witness ==
    /\ rq.fn = "region_within"
    /\ rq.a = rq.b
    /\ rq.ret

(***************************************************************************)
(* Properties of the validation-info scan (SpecFind).                      *)
(***************************************************************************)
MinOf(S) == CHOOSE x \in S : \A y \in S : x <= y

\* the offsets in 0..dist at which the magic is found from start on
MatchingOffsets(vmagic, start, dist) ==
    {i \in 0 .. dist : Add32(start, Lo32(i)) \in vmagic}

\* those among them that are not at address 0
NonNullMatchingOffsets(vmagic, start, dist) ==
    {i \in MatchingOffsets(vmagic, start, dist) : Add32(start, Lo32(i)) # NULLP}

\* C10 as stated: validation_info_find(region_end, d) returns the structure
\* at the smallest offset in 0..d at which the magic matches and none if and
\* only if no offset in 0..d matches.
C10_FirstMatchOrNone ==
    fq.fn = "validation_info_find" =>
       LET M == MatchingOffsets(fq.vmagic, fq.start, fq.dist)
       IN  /\ (fq.ret = NULLP) <=> (M = {})
           /\ M # {} => fq.ret = Add32(fq.start, Lo32(MinOf(M)))

\* C10 amended: validation_info_find(region_end, d) returns the structure at
\* the smallest offset i in 0..d at which the magic matches and whose address
\* region_end + i (mod 2^32) is not 0, and NULL if and only if there is no
\* such offset; validate_firmware calls it with d = 4 at src_address + size
\* and fails its check 11 exactly when it returns NULL.
C10_FirstNonNullMatchOrNone ==
    /\ fq.fn = "validation_info_find" =>
          LET M == NonNullMatchingOffsets(fq.vmagic, fq.start, fq.dist)
          IN  /\ (fq.ret = NULLP) <=> (M = {})
              /\ M # {} => fq.ret = Add32(fq.start, Lo32(MinOf(M)))
    /\ call.op = "validate" /\ call.failed \notin 1 .. 10 =>
          LET M == NonNullMatchingOffsets(call.c.vmagic,
                       Add32(call.src, call.c.size), SEARCH_DISTANCE)
          IN  (call.failed = 11) <=> (M = {})

\* the scan returned the only match, found at the last offset searched
C10_Witness ==
    /\ fq.fn = "validation_info_find"
    /\ fq.dist = SEARCH_DISTANCE
    /\ MatchingOffsets(fq.vmagic, fq.start, fq.dist) = {SEARCH_DISTANCE}
    /\ fq.ret = Add32(fq.start, Lo32(SEARCH_DISTANCE))
    /\ fq.ret # NULLP

(***************************************************************************)
(* Properties of the monotonic counter (Spec).                             *)
(***************************************************************************)
\* C6: for every version <= 0x7FFF and slot in {0, 1}, once
\* set_monotonic_version(version, slot) has returned 0 the stored word is
\* (version << 1) | !slot and get_monotonic_version returns exactly
\* (version, slot).
C6_CounterRoundTrip ==
    call.op = "set" /\ call.err = 0 =>
       /\ call.version <= MAX_VERSION /\ call.slot \in {0, 1}
       /\ get_monotonic_counter = 2 * call.version + (1 - call.slot)
       /\ get_monotonic_version(get_monotonic_counter).version = call.version
       /\ get_monotonic_version(get_monotonic_counter).slot = call.slot

\* the largest version was stored for slot 0, which fills all 16 bits
C6_Witness ==
    /\ call.op = "set"
    /\ call.err = 0
    /\ call.version = MAX_VERSION
    /\ call.slot = 0
    /\ counter = W16 - 1

(***************************************************************************)
(* The checks of validate_firmware, each stated on its own for the last    *)
(* call: Check(n) is check n of the thirteen, evaluated on the arguments   *)
(* of the call and on the state the call started in.                       *)
(***************************************************************************)
InRange(a, start, size) ==
    /\ Le32(start, Add32(start, size))
    /\ Le32(start, a)
    /\ Lt32(a, Add32(start, size))

Check(n) ==
    LET c == call.c
    IN  CASE n = 1 -> /\ call.fwinfo # NULLP
                      /\ \/ c.info_magic /\ call.fwinfo = Add32(call.src, Lo32(FW_INFO_OFFSET))
                         \/ c.copy_at # NULLP /\ call.fwinfo = c.copy_at
          [] n = 2 -> call.dst = c.address
          [] n = 3 -> call.external \/ call.src = call.dst
          [] n = 4 -> call.fwinfo = (IF c.info_magic
                                     THEN Add32(call.src, Lo32(FW_INFO_OFFSET))
                                     ELSE NULLP)
          [] n = 5 -> c.valid = FW_INFO_VALID_VAL
          [] n = 6 -> c.version >= counter \div 2
          [] n = 7 -> /\ Le32(c.size, Lo32(PM_S0_SIZE))
                      /\ Le32(c.size, Lo32(PM_S1_SIZE))
                      /\ Le32(c.total_size, c.size)
          [] n = 8 -> /\ Le32(call.fwinfo, Add32(call.fwinfo, c.total_size))
                      /\ InRange(call.fwinfo, call.src, c.size)
                      /\ InRange(Add32(call.fwinfo, c.total_size), call.src, c.size)
          [] n = 9 -> InRange(c.boot_address, call.dst, c.size)
          [] n = 10 -> InRange(c.reset, call.dst, c.size)
          [] n = 11 -> NonNullMatchingOffsets(c.vmagic, Add32(call.src, c.size),
                                              SEARCH_DISTANCE) # {}
          [] n = 12 -> c.vaddress = c.address
          [] n = 13 -> validate_signature(c, call.pre_inv).ret

FailingChecks == {n \in 1 .. 13 : ~Check(n)}

\* C1: validate_firmware returns true only if each of the 13 checks passes;
\* a candidate for which exactly one check fails is rejected.
C1_AnyFailingCheckRejects ==
    call.op = "validate" /\ FailingChecks # {} => call.ret = FALSE

\* a call in which the boot address check alone fails
C1_Witness ==
    /\ call.op = "validate"
    /\ FailingChecks = {9}
    /\ call.ret = FALSE

\* C2: once set_monotonic_version(v2, slot) has returned 0, validate_firmware
\* rejects every image whose version is below v2 and accepts an image of
\* version v2 for which all other checks pass.
C2_AntiRollback ==
    call.op = "validate" /\ lastSet # NoSet =>
       /\ call.c.version < lastSet.version => call.ret = FALSE
       /\ call.c.version = lastSet.version /\ FailingChecks \subseteq {6}
             => call.ret = TRUE

\* an image of exactly the stored version 5 was accepted
C2_Witness ==
    /\ call.op = "validate"
    /\ lastSet # NoSet
    /\ lastSet.version = 5
    /\ call.c.version = lastSet.version
    /\ call.ret = TRUE

(***************************************************************************)
(* Properties of the signature verification (Spec).                        *)
(***************************************************************************)
\* the last call's verification succeeded with key slot k
SucceededWith(k) == \E n \in DOMAIN call.sig.verifs : call.sig.verifs[n] = <<k, 0>>

\* the key slots whose hash is the hash of the embedded public key
MatchingSlots == {j \in DOMAIN keyHash : keyHash[j] = call.c.pubkey}

\* C3 as stated: when the verification succeeds with key index k, every key
\* slot with an index below k is invalidated when the verifier returns true.
C3_LowerSlotsInvalidatedOnSuccess ==
    call.op = "validate" /\ call.sig.ret =>
       \A k \in DOMAIN keyHash :
          SucceededWith(k) => \A j \in 0 .. k - 1 : keyInvalid[j]

\* C4 as stated: once a verification has succeeded with key index k, a later
\* verification whose embedded public key matches only slots below k returns
\* false, and every read of such a slot reports that it is invalidated.
C4_NoDowngradeToEarlierKey ==
    /\ call.op = "validate"
    /\ call.sig.init
    /\ MatchingSlots # {}
    /\ \A j \in MatchingSlots : j < call.pre_trusted
    => /\ call.sig.ret = FALSE
       /\ \A n \in DOMAIN call.sig.reads :
             call.sig.reads[n][1] \in MatchingSlots
                => call.sig.reads[n][2] = -EINVAL

\* C5: a call of validate_firmware that returns false invalidates no key
\* slot (it does not call invalidate_public_key at all) and leaves the
\* monotonic counter as it was; no call of validate_firmware writes the
\* counter.
C5_RejectionMutatesNothing ==
    [][call'.op = "validate" =>
          /\ counter' = counter /\ freeSlots' = freeSlots
          /\ call'.ret = FALSE =>
                /\ keyInvalid' = keyInvalid
                /\ call'.sig.invals = <<>>]_vars

\* a call rejected by the verifier after it had read more than one key slot,
\* on a device whose stored version is above 0
C5_Witness ==
    /\ call.op = "validate"
    /\ call.ret = FALSE
    /\ call.failed = 13
    /\ Len(call.sig.reads) > 1
    /\ counter > 1

\* reading slot k succeeds / reports the slot as invalidated, and the result
\* of the root-of-trust verifier for slot k, in the state the call started in
ReadSucceeds(k) == ~call.pre_inv[k] /\ call.c.read_err[k] = 0
ReadInvalidated(k) == call.pre_inv[k]
RotResult(k) ==
    IF call.c.rot_err THEN "error"
    ELSE IF call.c.pubkey # keyHash[k] THEN "hash-mismatch"
    ELSE IF ~call.c.sig THEN "signature-invalid"
    ELSE "success"

\* C7: validate_signature returns true if and only if the crypto
\* initialisation succeeds and there is a key index k below the number of
\* keys such that reading slot k succeeds and the root-of-trust verifier
\* returns success for k, while every slot j < k was invalidated or gave a
\* hash mismatch.
C7_SignatureVerdict ==
    call.op = "validate" /\ call.sig.ran =>
       (call.sig.ret <=>
           /\ ~call.c.init_err
           /\ \E k \in DOMAIN keyHash :
                 /\ ReadSucceeds(k)
                 /\ RotResult(k) = "success"
                 /\ \A j \in 0 .. k - 1 :
                       \/ ReadInvalidated(j)
                       \/ ReadSucceeds(j) /\ RotResult(j) = "hash-mismatch")

\* a verification that succeeded with the last key after an invalidated
\* slot and a hash mismatch
C7_Witness ==
    /\ call.op = "validate"
    /\ call.sig.ret
    /\ SucceededWith(NumKeys - 1)
    /\ \E n \in DOMAIN call.sig.reads : call.sig.reads[n][2] = -EINVAL
    /\ \E n \in DOMAIN call.sig.verifs : call.sig.verifs[n][2] = -EHASHINV

(***************************************************************************)
(* The counter of a device without counter slots (Spec).                   *)
(***************************************************************************)
\* C11 as stated: on a device with zero monotonic counter slots
\* set_monotonic_version(version, slot) returns 0, whatever the counter
\* write returned.
C11_DisabledCounterWriteSucceeds ==
    call.op = "set" /\ num_monotonic_counter_slots = 0 => call.err = 0

(***************************************************************************)
(* The caller-side bl_validate_firmware (SpecCaller).                      *)
(***************************************************************************)
\* C12 as stated: when the optional ext_api table is absent, the caller-side
\* bl_validate_firmware does not call through the table and its outcome
\* differs from its outcome for a rejected image, which is false.
C12_AbsentTableIsNotARejection ==
    call.op = "caller" /\ ~call.available =>
       /\ ~call.through
       /\ call.ret # FALSE

(***************************************************************************)
(* The order of the key loop (Spec).                                       *)
(***************************************************************************)
Range(f) == {f[n] : n \in DOMAIN f}

\* C13: within one verification the key slots are read in strictly
\* ascending index order from 0 on, each at most once; slot k + 1 is read
\* only if slot k was invalidated or the root-of-trust verifier returned a
\* hash mismatch for k; a verification is made only against a slot that was
\* read successfully, and after a success or any other result than a hash
\* mismatch at k no later slot is read or verified.
C13_KeyLoopOrder ==
    call.op = "validate" =>
       LET R == call.sig.reads
           V == call.sig.verifs
       IN  /\ \A n \in DOMAIN R : R[n][1] = n - 1
           /\ \A n \in DOMAIN R : n > 1 =>
                 \/ R[n - 1][2] = -EINVAL
                 \/ /\ R[n - 1][2] = 0
                    /\ <<R[n - 1][1], -EHASHINV>> \in Range(V)
           /\ \A m \in DOMAIN V :
                 /\ <<V[m][1], 0>> \in Range(R)
                 /\ m > 1 => V[m - 1][1] < V[m][1]
                 /\ V[m][2] # -EHASHINV =>
                       /\ m = Len(V)
                       /\ V[m][1] = R[Len(R)][1]

\* the verification succeeded with slot 0 and did not read slot 1, which
\* holds the same key hash and was not invalidated
C13_Witness ==
    /\ call.op = "validate"
    /\ call.sig.ret
    /\ call.sig.reads = <<(<<0, 0>>)>>
    /\ call.sig.verifs = <<(<<0, 0>>)>>
    /\ keyHash[1] = call.c.pubkey
    /\ ~call.pre_inv[1]

\* C14: if reading key slot k returns anything but success or "invalidated"
\* (the unsupported sentinel -EHASHFF or another storage fault), the
\* verification returns false, slot k is the last slot read, no slot with an
\* index of k or above is verified against, and invalidate_public_key is
\* not called for any slot.
C14_StorageFaultAborts ==
    call.op = "validate" =>
       \A n \in DOMAIN call.sig.reads :
          call.sig.reads[n][2] \notin {0, -EINVAL} =>
             /\ call.sig.ret = FALSE
             /\ call.ret = FALSE
             /\ n = Len(call.sig.reads)
             /\ \A m \in DOMAIN call.sig.verifs :
                   call.sig.verifs[m][1] < call.sig.reads[n][1]
             /\ call.sig.invals = <<>>
             /\ keyInvalid = call.pre_inv

\* the read of slot 1 reported the unsupported sentinel after a hash
\* mismatch at slot 0, while the validly signing key is in slot 2
C14_Witness ==
    /\ call.op = "validate"
    /\ call.sig.reads = <<(<<0, 0>>), (<<1, -EHASHFF>>)>>
    /\ call.sig.verifs = <<(<<0, -EHASHINV>>)>>
    /\ keyHash[2] = call.c.pubkey
    /\ call.c.sig
    /\ ~call.pre_inv[2]
    /\ call.ret = FALSE

\* C15: a verification that succeeds with key index k does not call
\* invalidate_public_key for slot k or for any slot above k, and those slots
\* are in the same state after the call as before it.
C15_InvalidationFrame ==
    call.op = "validate" =>
       \A k \in DOMAIN keyHash :
          SucceededWith(k) =>
             \A j \in DOMAIN keyHash :
                j >= k => /\ j \notin Range(call.sig.invals)
                          /\ keyInvalid[j] = call.pre_inv[j]

\* key 1 of 3 succeeded: slot 0 was invalidated, slots 1 and 2 are usable
C15_Witness ==
    /\ call.op = "validate"
    /\ call.ret
    /\ SucceededWith(1)
    /\ call.sig.invals = <<0>>
    /\ keyInvalid = [j \in DOMAIN keyHash |-> j = 0]

\* C16 as stated: the verifier does not call invalidate_public_key on a slot
\* that is already invalidated, so that over any sequence of verifications
\* each slot is handed to invalidate_public_key at most once.
C16_InvalidateAtMostOncePerSlot ==
    call.op = "validate" =>
       \A n \in DOMAIN call.sig.invals :
          /\ ~call.pre_inv[call.sig.invals[n]]
          /\ \A m \in DOMAIN call.sig.invals :
                call.sig.invals[m] = call.sig.invals[n] => m = n

(***************************************************************************)
(* The order of the checks of validate_firmware (Spec).                    *)
(***************************************************************************)
\* C17: the checks run in the listed order and the first failing check
\* returns: the check at which validate_firmware returned false is the first
\* of the thirteen that fails; the monotonic counter is read only after
\* checks 1-5 passed, the word at boot_address + 4 only after checks 1-9
\* passed (a boot_address outside [dst, dst + size) is rejected without
\* being dereferenced), the validation info is scanned for only after
\* checks 1-10 passed, and the crypto library and key storage are used only
\* after checks 1-12 passed.
C17_CheckOrder ==
    call.op = "validate" =>
       /\ call.ret = FALSE => /\ call.failed \in FailingChecks
                              /\ \A n \in FailingChecks : call.failed <= n
       /\ "counter" \in call.touched => \A n \in 1 .. 5 : Check(n)
       /\ "reset_word" \in call.touched => \A n \in 1 .. 9 : Check(n)
       /\ ~InRange(call.c.boot_address, call.dst, call.c.size) =>
             call.ret = FALSE /\ "reset_word" \notin call.touched
       /\ "scan" \in call.touched => \A n \in 1 .. 10 : Check(n)
       /\ "crypto" \in call.touched \/ call.sig.ran => \A n \in 1 .. 12 : Check(n)

\* an image whose boot_address is dst_address + size was rejected at the
\* boot address check, after the counter was read and before the word at
\* boot_address + 4 was
C17_Witness ==
    /\ call.op = "validate"
    /\ call.c.boot_address = Add32(call.dst, call.c.size)
    /\ call.ret = FALSE
    /\ call.failed = 9
    /\ call.touched = {"counter"}

(***************************************************************************)
(* Checking the two ends of a region (SpecEndpoints).                      *)
(***************************************************************************)
\* C18: whenever region_within(inner_start, inner_end, start, end) returns
\* true, every address a with inner_start <= a < inner_end is within
\* [start, end); and when validate_firmware passes check 8 the firmware info
\* [fwinfo, fwinfo + total_size) lies inside [src_address, src_address + size).
C18_EndpointsSuffice ==
    /\ rq.fn = "region_within" /\ rq.ret =>
          \A a \in RegionAddrs :
             Le32(rq.a, a) /\ Lt32(a, rq.b) =>
                Le32(rq.c, rq.d) /\ Le32(rq.c, a) /\ Lt32(a, rq.d)
    /\ call.op = "validate" /\ call.failed \notin 1 .. 8 =>
          LET info_end == Add32(call.fwinfo, call.c.total_size)
              image_end == Add32(call.src, call.c.size)
          IN  /\ Le32(call.src, image_end)
              /\ Le32(call.src, call.fwinfo)
              /\ Le32(call.fwinfo, info_end)
              /\ Le32(info_end, image_end)

\* region_within accepted an inner region that has an address strictly
\* between its two ends
C18_Witness ==
    /\ rq.fn = "region_within"
    /\ rq.ret
    /\ \E a \in RegionAddrs : Lt32(rq.a, a) /\ Lt32(a, rq.b)

(***************************************************************************)
(* Reads behind the end of the image (Spec).                               *)
(***************************************************************************)
\* C19: during the scan for the validation info and the later use of the
\* structure found, validate_firmware reads no byte at or beyond
\* region_end + max_search_distance + sizeof(ValidationInfo), where
\* region_end = src_address + size and max_search_distance = 4 (and none of
\* these reads is below region_end).
C19_BoundedReadBehindImage ==
    call.op = "validate" =>
       \A rd \in call.vreads :
          /\ 0 <= rd[1]
          /\ rd[1] < rd[2]
          /\ rd[2] <= SEARCH_DISTANCE + SizeofValidationInfo

\* the validation info was found at the last offset scanned and its
\* signature, which ends at the bound, was read
C19_Witness ==
    /\ call.op = "validate"
    /\ call.ret
    /\ <<0, FW_INFO_MAGIC_LEN>> \in call.vreads
    /\ <<SEARCH_DISTANCE, SEARCH_DISTANCE + FW_INFO_MAGIC_LEN>> \in call.vreads
    /\ \E rd \in call.vreads : rd[2] = SEARCH_DISTANCE + SizeofValidationInfo

(***************************************************************************)
(* The reset handler word (Spec).                                          *)
(***************************************************************************)
\* C20 as stated: the 4-byte word that validate_firmware reads for check 10,
\* at boot_address + 4, lies entirely inside the signed region
\* [src_address, src_address + size) of the candidate, for self-validation
\* and for cross-image validation alike.
C20_ResetWordInsideSignedRegion ==
    call.op = "validate" /\ "reset_word" \in call.touched =>
       LET first == ResetWordAddress(call.c.boot_address)
           end == ResetWordEnd(call.c.boot_address)
           image_end == Add32(call.src, call.c.size)
       IN  /\ Le32(call.src, image_end)
           /\ Le32(call.src, first)
           /\ Lt32(first, end)
           /\ Le32(end, image_end)

(***************************************************************************)
(* Images at the top of the address space (Spec).                          *)
(***************************************************************************)
\* the 32-bit sum a + b does not fit in 32 bits
Wraps(a, b) == a[1] + b[1] + ((a[2] + b[2]) \div W16) >= W16

\* C21: validate_firmware returns false whenever src_address + size,
\* dst_address + size or fwinfo + total_size wraps past 2^32 and whenever
\* size is 0, so that no accepted image has a region whose computed end is
\* below its start.
C21_WrappingImageRejected ==
    call.op = "validate" =>
       /\ \/ Wraps(call.src, call.c.size)
          \/ Wraps(call.dst, call.c.size)
          \/ Wraps(call.fwinfo, call.c.total_size)
          \/ call.c.size = Lo32(0)
          => call.ret = FALSE
       /\ call.ret =>
             /\ Lt32(call.src, Add32(call.src, call.c.size))
             /\ Lt32(call.dst, Add32(call.dst, call.c.size))
             /\ Le32(call.fwinfo, Add32(call.fwinfo, call.c.total_size))

\* an image below the top of the address space was rejected although
\* fwinfo + total_size is the only sum that wraps and check 8 the only check
\* that fails
C21_Witness ==
    /\ call.op = "validate"
    /\ Wraps(call.fwinfo, call.c.total_size)
    /\ ~Wraps(call.src, call.c.size)
    /\ ~Wraps(call.dst, call.c.size)
    /\ FailingChecks = {8}
    /\ call.ret = FALSE


\* the calls of invalidate_public_key made by the last call that reported an
\* error
FailedInvalidations ==
    {n \in DOMAIN call.sig.invals : call.sig.invals[n] \in call.c.inval_fail}

\* C22 as stated: the signature verification returns true only if every
\* invalidate_public_key call it made reported success; when the invalidation
\* of a slot j below the matching key fails, the image is not accepted while
\* slot j is still usable.
C22_AcceptedOnlyIfInvalidationsSucceeded ==
    call.op = "validate" /\ call.sig.ret =>
       /\ FailedInvalidations = {}
       /\ \A n \in DOMAIN call.sig.invals : keyInvalid[call.sig.invals[n]]

====
